---- MODULE Spec2Model ----
(***************************************************************************)
(* Content workflow pipeline of AtaishNehra/content-gen.                   *)
(*                                                                         *)
(*   app/config.py            Config.validate (import-time pre-flight)     *)
(*   app/graph.py             the eight LangGraph nodes and build_graph    *)
(*   app/tools/compliance.py  review_post and its rule checks              *)
(*   app/tools/factcheck.py   verify_claims (dedup, scoring, hedging)      *)
(*   app/models.py            PlatformPost.validate_character_limits       *)
(*                                                                         *)
(* Confidence values are integers in hundredths (0.3 is 30).  A text is    *)
(* abstracted to the written tokens it is made of; what a token contains   *)
(* (a substring of a word list, a number, an entity) is tabulated below.   *)
(***************************************************************************)
EXTENDS Integers, Sequences, FiniteSets, TLC

(***************************************************************************)
(* Bounds of the model (not program constants).                            *)
(***************************************************************************)
\* injected failures of external collaborators per pipeline run
MaxFaults == 1
\* claims extracted over all platforms in one pipeline run
MaxClaims == 2
\* length of the claim list handed to a function applied on its own
MaxProbeClaims == 2
\* length of the claim list handed to _deduplicate_claims applied on its own
MaxDedupClaims == 3

(***************************************************************************)
(* Program constants.                                                      *)
(***************************************************************************)
\* compliance.py:152  high severity, confidence < 0.3 -> major
HighLowConfidence == 30
\* compliance.py:162  high severity, confidence < 0.5 and no sources -> minor
HighUnsourced == 50
\* compliance.py:172  high severity, confidence < 0.6 and >= 2 sources -> minor
HighAttribution == 60
\* compliance.py:172  len(claim.sources) >= 2
AttributionSources == 2
\* compliance.py:183  medium severity, confidence < 0.25 -> minor
MediumLowConfidence == 25
\* models.py:115  Twitter posts must be <= 280 characters
TwitterMax == 280
\* models.py:120  LinkedIn posts should be 100-1300 characters
LinkedInMin == 100
LinkedInMax == 1300
\* models.py:125  Instagram posts should be 125-2200 characters
InstagramMin == 125
InstagramMax == 2200

\* generic helpers over sequences
Range(s) == {s[i] : i \in 1..Len(s)}

RECURSIVE Concat(_)
Concat(ss) == IF ss = <<>> THEN <<>> ELSE Head(ss) \o Concat(Tail(ss))

IsPrefix(s, t) == Len(s) <= Len(t) /\ SubSeq(t, 1, Len(s)) = s

SeqsUpTo(S, n) == UNION {[1..k -> S] : k \in 0..n}

(***************************************************************************)
(* Platforms.  generate_posts fills drafts in this order, so every dict    *)
(* keyed by platform (drafts, claims, reviews) iterates in this order.     *)
(***************************************************************************)
PlatformOrder == <<"twitter", "linkedin", "instagram">>
Platforms == Range(PlatformOrder)

(***************************************************************************)
(* Compliance word lists (compliance.py:31-68).  The source keeps them in  *)
(* Python sets; the order in which a check emits its issues is the set's   *)
(* iteration order, fixed here to the order of the listing.                *)
(***************************************************************************)
PROFANITY_WORDS == <<"damn", "hell", "crap", "stupid", "idiot", "hate">>

ABSOLUTE_PHRASES ==
    <<"guarantee", "guaranteed", "100%", "always works", "never fails",
      "instant results", "immediate">>

STRICT_RESTRICTED ==
    <<"cure", "cures", "diagnose", "diagnosis", "treatment", "financial advice",
      "returns", "roi", "profit guaranteed", "investment">>

\* The listed words that occur as substrings of a written token, lowercased
\* (`word in text_lower`).  Tokens not tabulated contain none.
TermsIn(tok) ==
    CASE tok = "damn"        -> {"damn"}
      [] tok = "Hello"       -> {"hell"}
      [] tok = "hate"        -> {"hate"}
      [] tok = "guarantee"   -> {"guarantee"}
      [] tok = "Guaranteed"  -> {"guarantee", "guaranteed"}
      [] tok = "100%"        -> {"100%"}
      [] tok = "immediately" -> {"immediate"}
      [] tok = "cure"        -> {"cure"}
      [] tok = "cures"       -> {"cure", "cures"}
      [] tok = "secure"      -> {"cure"}
      [] tok = "diagnose"    -> {"diagnose"}
      [] tok = "treatment"   -> {"treatment"}
      [] tok = "ROI"         -> {"roi"}
      [] OTHER               -> {}

\* A post text: the written tokens in it and its length in characters.
PostText(words, len) == [words |-> words, len |-> len]

\* `word in text.lower()`
Contains(text, word) == \E tok \in text.words : word \in TermsIn(tok)

(***************************************************************************)
(* Compliance Engine (compliance.py).                                      *)
(***************************************************************************)
ComplianceIssue(rule_id, severity, about) ==
    [rule_id |-> rule_id, severity |-> severity, about |-> about]

\* one issue of the given rule per listed word found in the text
WordIssues(text, wordlist, rule_id, severity) ==
    LET hits == SelectSeq(wordlist, LAMBDA w : Contains(text, w))
    IN  [i \in 1..Len(hits) |-> ComplianceIssue(rule_id, severity, hits[i])]

_check_profanity(text) ==
    WordIssues(text, PROFANITY_WORDS, "profanity_check", "minor")

_check_absolute_claims(text) ==
    WordIssues(text, ABSOLUTE_PHRASES, "absolute_claims", "major")

_check_strict_mode(text) ==
    WordIssues(text, STRICT_RESTRICTED, "strict_mode_restricted", "critical")

\* a variant that treats low severity like medium severity
ClaimConfidenceIssuesLowAsMedium(claim) ==
    IF claim.severity = "high" THEN
        IF claim.confidence < HighLowConfidence THEN
            <<ComplianceIssue("low_confidence_claim", "major", claim.text)>>
        ELSE IF claim.confidence < HighUnsourced /\ claim.sources = <<>> THEN
            <<ComplianceIssue("unsourced_claim", "minor", claim.text)>>
        ELSE IF /\ claim.confidence < HighAttribution
                /\ Len(claim.sources) >= AttributionSources THEN
            <<ComplianceIssue("attribution_note", "minor", claim.text)>>
        ELSE <<>>
    ELSE IF claim.confidence < MediumLowConfidence THEN
        <<ComplianceIssue("low_confidence_claim", "minor", claim.text)>>
    ELSE <<>>

\* a variant whose high-severity threshold includes 0.3 itself
ClaimConfidenceIssuesInclusive(claim) ==
    IF claim.severity = "high" THEN
        IF claim.confidence <= HighLowConfidence THEN
            <<ComplianceIssue("low_confidence_claim", "major", claim.text)>>
        ELSE IF claim.confidence < HighUnsourced /\ claim.sources = <<>> THEN
            <<ComplianceIssue("unsourced_claim", "minor", claim.text)>>
        ELSE IF /\ claim.confidence < HighAttribution
                /\ claim.sources # <<>>
                /\ Len(claim.sources) >= AttributionSources THEN
            <<ComplianceIssue("attribution_note", "minor", claim.text)>>
        ELSE <<>>
    ELSE IF claim.severity = "medium" THEN
        IF claim.confidence < MediumLowConfidence THEN
            <<ComplianceIssue("low_confidence_claim", "minor", claim.text)>>
        ELSE <<>>
    ELSE <<>>

\* the body of the loop of _check_claim_confidence: the issues of one claim
ClaimConfidenceIssues(claim) ==
    IF claim.severity = "high" THEN
        IF claim.confidence < HighLowConfidence THEN
            <<ComplianceIssue("low_confidence_claim", "major", claim.text)>>
        ELSE IF claim.confidence < HighUnsourced /\ claim.sources = <<>> THEN
            <<ComplianceIssue("unsourced_claim", "minor", claim.text)>>
        ELSE IF /\ claim.confidence < HighAttribution
                /\ claim.sources # <<>>
                /\ Len(claim.sources) >= AttributionSources THEN
            <<ComplianceIssue("attribution_note", "minor", claim.text)>>
        ELSE <<>>
    ELSE IF claim.severity = "medium" THEN
        IF claim.confidence < MediumLowConfidence THEN
            <<ComplianceIssue("low_confidence_claim", "minor", claim.text)>>
        ELSE <<>>
    ELSE <<>>

_check_claim_confidence(claims) ==
    Concat([i \in 1..Len(claims) |-> ClaimConfidenceIssues(claims[i])])

\* a variant in which any issue short of critical flags the post
_determine_status_any_issue_flags(issues) ==
    IF issues = <<>> THEN "pass"
    ELSE IF \E i \in 1..Len(issues) : issues[i].severity = "critical" THEN "block"
    ELSE "flag"

_determine_status(issues) ==
    IF issues = <<>> THEN "pass"
    ELSE IF \E i \in 1..Len(issues) : issues[i].severity = "critical" THEN "block"
    ELSE IF \E i \in 1..Len(issues) : issues[i].severity = "major" THEN "flag"
    ELSE "pass"

PostReview(status, issues, claims) ==
    [status |-> status, issues |-> issues, claims |-> claims]

\* a variant that applies the strict-mode check in every mode
ReviewIssuesAlwaysStrict(mode, text, claims) ==
    _check_profanity(text)
        \o _check_absolute_claims(text)
        \o _check_claim_confidence(claims)
        \o _check_strict_mode(text)

\* review_post reads config.COMPLIANCE_MODE; it is passed here as `mode`.
ReviewIssues(mode, text, claims) ==
    _check_profanity(text)
        \o _check_absolute_claims(text)
        \o _check_claim_confidence(claims)
        \o (IF mode = "strict" THEN _check_strict_mode(text) ELSE <<>>)

review_post(mode, platform, text, claims) ==
    LET issues == ReviewIssues(mode, text, claims)
    IN  PostReview(_determine_status(issues), issues, claims)

(***************************************************************************)
(* Claim texts and search-result titles are sequences of written tokens    *)
(* (the text is the tokens joined by single spaces).  What the regular     *)
(* expressions of factcheck.py find in a token is tabulated per token.     *)
(***************************************************************************)
\* str.lower() of a token
Lower(tok) ==
    CASE tok = "Buffer"    -> "buffer"
      [] tok = "Gartner"   -> "gartner"
      [] tok = "Remote"    -> "remote"
      [] tok = "Work"      -> "work"
      [] tok = "Health"    -> "health"
      [] tok = "News"      -> "news"
      [] tok = "According" -> "according"
      [] tok = "Reportedly" -> "reportedly"
      [] OTHER             -> tok

LowerText(text) == [i \in 1..Len(text) |-> Lower(text[i])]

\* re.findall(r'\d+(?:\.\d+)?%?', token)
NumbersIn(tok) ==
    CASE tok = "80%"  -> <<"80%">>
      [] tok = "80"   -> <<"80">>
      [] tok = "45%"  -> <<"45%">>
      [] tok = "2023" -> <<"2023">>
      [] OTHER        -> <<>>

\* a number match without its percent sign: re.findall(r'\d+(?:\.\d+)?', ...)
StripPercent(num) ==
    CASE num = "80%" -> "80"
      [] num = "45%" -> "45"
      [] OTHER       -> num

\* f"{num}%"
AddPercent(num) ==
    CASE num = "80"   -> "80%"
      [] num = "45"   -> "45%"
      [] num = "2023" -> "2023%"
      [] OTHER        -> num

\* the entity alternation of factcheck.py:74 and :113 found in a lowercased token
EntitiesIn(tok) ==
    CASE tok = "buffer"   -> <<"buffer">>
      [] tok = "buffer,"  -> <<"buffer">>
      [] tok = "gartner"  -> <<"gartner">>
      [] tok = "who"      -> <<"who">>
      [] OTHER            -> <<>>

\* re.findall(r'\b[a-z]{3,}\b', token) of a lowercased token
WordsIn(tok) ==
    CASE tok \in {"buffer", "gartner", "remote", "work", "health", "news",
                  "according", "reportedly", "survey", "prefer", "workers",
                  "per", "popular", "statistics", "who", "reports",
                  "weather", "today", "study"} -> {tok}
      [] tok = "survey:"  -> {"survey"}
      [] tok = "remote,"  -> {"remote"}
      [] tok = "buffer,"  -> {"buffer"}
      [] tok = "reports," -> {"reports"}
      [] OTHER            -> {}

\* the keyword alternation of factcheck.py:339 found in a lowercased token
KeywordsIn(tok) ==
    CASE tok \in {"survey", "survey:"} -> <<"survey">>
      [] tok = "study"                 -> <<"study">>
      [] OTHER                         -> <<>>

\* `s in token` for the strings the code looks for inside a lowercased title
TokenHas(tok, s) ==
    \/ s = tok
    \/ tok = "80%"     /\ s \in {"80", "80%"}
    \/ tok = "45%"     /\ s \in {"45", "45%"}
    \/ tok = "1980s"   /\ s \in {"80", "1980"}
    \/ tok = "survey:" /\ s = "survey"
    \/ tok = "buffer," /\ s = "buffer"
    \/ tok = "remote," /\ s = "remote"

\* tokens with a word of the hedge list of factcheck.py:381 as a substring
IsHedge(tok) == tok \in {"reportedly", "suggests", "indicates", "appears"}

\* matches of a per-token table over a whole text, in text order
FindAll(Table(_), text) == Concat([i \in 1..Len(text) |-> Table(text[i])])

(***************************************************************************)
(* Claim Verification Engine (factcheck.py).                               *)
(***************************************************************************)
Claim(text, severity, sources, confidence) ==
    [text |-> text, severity |-> severity, sources |-> sources,
     confidence |-> confidence]

\* factcheck.py:99  r'(\d+)\s*percent' -> r'\1%' on the lowercased text
RECURSIVE PercentForm(_)
PercentForm(text) ==
    IF text = <<>> THEN <<>>
    ELSE IF Len(text) >= 2 /\ text[1] = "80" /\ text[2] = "percent"
         THEN <<"80%">> \o PercentForm(Tail(Tail(text)))
         ELSE <<Head(text)>> \o PercentForm(Tail(text))

_normalize_claim_text(text) == PercentForm(LowerText(text))

\* extract_components of _are_claims_similar: numbers of the raw text,
\* entities of the lowercased text
_are_claims_similar(text1, text2) ==
    /\ Range(FindAll(NumbersIn, text1)) \cap Range(FindAll(NumbersIn, text2)) # {}
    /\ Range(FindAll(EntitiesIn, LowerText(text1)))
           \cap Range(FindAll(EntitiesIn, LowerText(text2))) # {}

\* the signature of factcheck.py:77, as the pair of its two sorted parts;
\* sorted() of a list is determined by its multiset of elements
Multiset(s) == [x \in Range(s) |-> Cardinality({i \in 1..Len(s) : s[i] = x})]

Signature(text) ==
    LET normalized == _normalize_claim_text(text)
    IN  <<Multiset(FindAll(NumbersIn, normalized)),
          Multiset(FindAll(EntitiesIn, normalized))>>

RECURSIVE DedupFrom(_, _, _)
DedupFrom(claims, unique_claims, seen_signatures) ==
    IF claims = <<>> THEN unique_claims
    ELSE LET claim == Head(claims)
             signature == Signature(claim.text)
             is_duplicate ==
                 \E i \in 1..Len(unique_claims) :
                     _are_claims_similar(claim.text, unique_claims[i].text)
         IN  IF signature \notin seen_signatures /\ ~is_duplicate
             THEN DedupFrom(Tail(claims), Append(unique_claims, claim),
                            seen_signatures \cup {signature})
             ELSE DedupFrom(Tail(claims), unique_claims, seen_signatures)

\* a variant that tells duplicates by the signature alone
RECURSIVE DedupBySignature(_, _, _)
DedupBySignature(claims, unique_claims, seen_signatures) ==
    IF claims = <<>> THEN unique_claims
    ELSE LET claim == Head(claims)
             signature == Signature(claim.text)
         IN  IF signature \notin seen_signatures
             THEN DedupBySignature(Tail(claims), Append(unique_claims, claim),
                                   seen_signatures \cup {signature})
             ELSE DedupBySignature(Tail(claims), unique_claims, seen_signatures)

_deduplicate_claims_by_signature(claims) == DedupBySignature(claims, <<>>, {})

\* a variant that stops looking after the first duplicate it has removed
RECURSIVE DedupFirstOnly(_, _, _)
DedupFirstOnly(claims, unique_claims, seen_signatures) ==
    IF claims = <<>> THEN unique_claims
    ELSE LET claim == Head(claims)
             signature == Signature(claim.text)
             is_duplicate ==
                 \E i \in 1..Len(unique_claims) :
                     _are_claims_similar(claim.text, unique_claims[i].text)
         IN  IF signature \notin seen_signatures /\ ~is_duplicate
             THEN DedupFirstOnly(Tail(claims), Append(unique_claims, claim),
                                 seen_signatures \cup {signature})
             ELSE unique_claims \o Tail(claims)

_deduplicate_claims_first_only(claims) == DedupFirstOnly(claims, <<>>, {})

\* factcheck.py:62-90
_deduplicate_claims(claims) == DedupFrom(claims, <<>>, {})

(***************************************************************************)
(* Search results: (title, url) pairs.  What the domain lists of           *)
(* factcheck.py find in a url is tabulated per url.                        *)
(***************************************************************************)
SearchResult(title, url) == [title |-> title, url |-> url]

\* factcheck.py:193-206  any(re.search(pattern, url_lower) ...)
HasQualityDomain(url) ==
    url \in {"https://www.cdc.gov/news", "https://www.forbes.com/remote-work",
             "https://www.forrester.com/buffer"}

\* factcheck.py:292-315  the credibility tier of a url: tier 1 is tried first
SourceTier(url) ==
    CASE url = "https://www.cdc.gov/news"           -> 1
      [] url = "https://www.forbes.com/remote-work" -> 2
      [] OTHER                                      -> 3

TitleWords(title) == UNION {WordsIn(Lower(title[i])) : i \in 1..Len(title)}

\* `s in title_lower`, for a string s without spaces
TitleHas(title, s) == \E i \in 1..Len(title) : TokenHas(Lower(title[i]), s)

\* factcheck.py:188-237
_filter_search_results(results, claim_text) ==
    LET claim_words == TitleWords(claim_text)
        claim_numbers == Range(FindAll(NumbersIn, claim_text))
        Keep(r) ==
            LET title_words == TitleWords(r.title)
                title_numbers == Range(FindAll(NumbersIn, r.title))
                overlap == Cardinality(claim_words \cap title_words)
                denominator == IF Cardinality(claim_words) > 1
                               THEN Cardinality(claim_words) ELSE 1
                number_match == claim_numbers \cap title_numbers # {}
                \* relevance_score > 0.25, with 0.3 added on a number match
                relevant == 100 * overlap + (IF number_match THEN 30 ELSE 0) * denominator
                                > 25 * denominator
            IN  HasQualityDomain(r.url) \/ relevant \/ number_match
    IN  SelectSeq(results, Keep)

\* factcheck.py:332-365; claim_text arrives lowercased
_filter_relevant_results(results, claim_text) ==
    LET claim_numbers == FindAll(NumbersIn, claim_text)
        claim_entities == FindAll(EntitiesIn, claim_text)
        claim_keywords == FindAll(KeywordsIn, claim_text)
        Hits(found, title, weight) ==
            weight * Cardinality({i \in 1..Len(found) : TitleHas(title, found[i])})
        Score(r) ==
            Hits([i \in 1..Len(claim_numbers) |-> StripPercent(claim_numbers[i])],
                 r.title, 2)
              + Hits(claim_entities, r.title, 3)
              + Hits(claim_keywords, r.title, 1)
    IN  SelectSeq(results, LAMBDA r : Score(r) >= 2)

Max(a, b) == IF a >= b THEN a ELSE b
Min(a, b) == IF a <= b THEN a ELSE b

\* a variant without the final min(final_confidence, 0.95)
_calculate_confidence_uncapped(results, claim) ==
    IF results = <<>> THEN 10
    ELSE
    LET claim_text == LowerText(claim.text)
        relevant_results == _filter_relevant_results(results, claim_text)
        found == FindAll(NumbersIn, claim_text)
        claim_numbers == {StripPercent(found[i]) : i \in 1..Len(found)}
        claim_percentages == {found[i] : i \in {j \in 1..Len(found) :
                                                    StripPercent(found[j]) # found[j]}}
        claim_keywords == TitleWords(claim_text)
        denominator == IF Cardinality(claim_keywords) > 1
                       THEN Cardinality(claim_keywords) ELSE 1
        \* content match of one result
        Content(r) ==
            LET keyword_overlap ==
                    (40 * Cardinality(claim_keywords \cap TitleWords(r.title)))
                        \div denominator
                pct_hit == \E pct \in claim_percentages :
                    \/ TitleHas(r.title, pct)
                    \/ \E i \in 1..(Len(r.title) - 1) :
                           /\ Lower(r.title[i]) = StripPercent(pct)
                           /\ Lower(r.title[i + 1]) = "percent"
                num_hit == \E num \in claim_numbers :
                    \/ \E i \in 1..Len(r.title) : Lower(r.title[i]) = num
                    \/ TitleHas(r.title, AddPercent(num))
            IN  Max(keyword_overlap,
                    Max(IF pct_hit THEN 50 ELSE 0, IF num_hit THEN 40 ELSE 0))
        RECURSIVE MaxContent(_)
        MaxContent(rs) ==
            IF rs = <<>> THEN 0 ELSE Max(Content(Head(rs)), MaxContent(Tail(rs)))
        tiers == {SourceTier(relevant_results[i].url) : i \in 1..Len(relevant_results)}
        source_quality_score ==
            (IF 1 \in tiers THEN 40 ELSE 0) + (IF 2 \in tiers THEN 25 ELSE 0)
                + (IF 3 \in tiers THEN 10 ELSE 0)
        consistency_score ==
            IF Len(relevant_results) >= 3 THEN 20
            ELSE IF Len(relevant_results) >= 2 THEN 10 ELSE 0
    IN  IF relevant_results = <<>> THEN 20
        ELSE 50 + MaxContent(relevant_results) + source_quality_score
                 + consistency_score

\* a variant that gives 0.4 when results exist but none is relevant
_calculate_confidence_generous(results, claim) ==
    IF results = <<>> THEN 10
    ELSE IF _filter_relevant_results(results, LowerText(claim.text)) = <<>> THEN 40
    ELSE 95

\* factcheck.py:240-329, in hundredths
_calculate_confidence(results, claim) ==
    IF results = <<>> THEN 10
    ELSE
    LET claim_text == LowerText(claim.text)
        relevant_results == _filter_relevant_results(results, claim_text)
        found == FindAll(NumbersIn, claim_text)
        claim_numbers == {StripPercent(found[i]) : i \in 1..Len(found)}
        claim_percentages == {found[i] : i \in {j \in 1..Len(found) :
                                                    StripPercent(found[j]) # found[j]}}
        claim_keywords == TitleWords(claim_text)
        denominator == IF Cardinality(claim_keywords) > 1
                       THEN Cardinality(claim_keywords) ELSE 1
        \* content match of one result
        Content(r) ==
            LET keyword_overlap ==
                    (40 * Cardinality(claim_keywords \cap TitleWords(r.title)))
                        \div denominator
                pct_hit == \E pct \in claim_percentages :
                    \/ TitleHas(r.title, pct)
                    \/ \E i \in 1..(Len(r.title) - 1) :
                           /\ Lower(r.title[i]) = StripPercent(pct)
                           /\ Lower(r.title[i + 1]) = "percent"
                num_hit == \E num \in claim_numbers :
                    \/ \E i \in 1..Len(r.title) : Lower(r.title[i]) = num
                    \/ TitleHas(r.title, AddPercent(num))
            IN  Max(keyword_overlap,
                    Max(IF pct_hit THEN 50 ELSE 0, IF num_hit THEN 40 ELSE 0))
        RECURSIVE MaxContent(_)
        MaxContent(rs) ==
            IF rs = <<>> THEN 0 ELSE Max(Content(Head(rs)), MaxContent(Tail(rs)))
        tiers == {SourceTier(relevant_results[i].url) : i \in 1..Len(relevant_results)}
        source_quality_score ==
            (IF 1 \in tiers THEN 40 ELSE 0) + (IF 2 \in tiers THEN 25 ELSE 0)
                + (IF 3 \in tiers THEN 10 ELSE 0)
        consistency_score ==
            IF Len(relevant_results) >= 3 THEN 20
            ELSE IF Len(relevant_results) >= 2 THEN 10 ELSE 0
    IN  IF relevant_results = <<>> THEN 20
        ELSE Min(50 + MaxContent(relevant_results) + source_quality_score
                     + consistency_score, 95)

\* factcheck.py:384  re.sub(r'(\d+% of [^,]+)', r'reportedly \1', claim_text)
RECURSIVE InsertReportedly(_)
InsertReportedly(text) ==
    IF text = <<>> THEN <<>>
    ELSE IF /\ Len(text) >= 3
            /\ text[1] \in {"80%", "45%"}
            /\ text[2] = "of"
         THEN <<"reportedly", text[1], text[2]>> \o InsertReportedly(Tail(Tail(text)))
         ELSE <<Head(text)>> \o InsertReportedly(Tail(text))

\* a variant that adds cautious language to every claim below 0.7
_standardize_claim_language_below_high(claim_text, confidence) ==
    IF confidence < 70 THEN
        IF \E i \in 1..Len(claim_text) : IsHedge(Lower(claim_text[i]))
        THEN claim_text
        ELSE IF \E i \in 1..Len(claim_text) :
                    \E n \in Range(NumbersIn(claim_text[i])) : StripPercent(n) # n
             THEN InsertReportedly(claim_text)
             ELSE IF \E i \in 1..(Len(claim_text) - 1) :
                         /\ Lower(claim_text[i]) = "according"
                         /\ Lower(claim_text[i + 1]) = "to"
                  THEN claim_text
                  ELSE <<"According", "to", "reports,">> \o LowerText(claim_text)
    ELSE IF Len(claim_text) >= 2 /\ Lower(claim_text[1]) = "reportedly"
         THEN Tail(claim_text) ELSE claim_text

\* factcheck.py:375-392
_standardize_claim_language(claim_text, confidence) ==
    IF confidence < 40 THEN
        IF \E i \in 1..Len(claim_text) : IsHedge(Lower(claim_text[i]))
        THEN claim_text
        ELSE IF \E i \in 1..Len(claim_text) :
                    \E n \in Range(NumbersIn(claim_text[i])) : StripPercent(n) # n
             THEN InsertReportedly(claim_text)
             ELSE IF \E i \in 1..(Len(claim_text) - 1) :
                         /\ Lower(claim_text[i]) = "according"
                         /\ Lower(claim_text[i + 1]) = "to"
                  THEN claim_text
                  ELSE <<"According", "to", "reports,">> \o LowerText(claim_text)
    ELSE IF confidence >= 70 THEN
        IF Len(claim_text) >= 2 /\ Lower(claim_text[1]) = "reportedly"
        THEN Tail(claim_text) ELSE claim_text
    ELSE claim_text

\* a variant that never reports less than a baseline of 0.25
_verify_single_claim_baseline(claim, search_results) ==
    LET filtered_results == _filter_search_results(search_results, claim.text)
        confidence == Max(25, _calculate_confidence(filtered_results, claim))
        top == SubSeq(filtered_results, 1, Min(3, Len(filtered_results)))
        sources == [i \in 1..Len(top) |-> top[i].url]
    IN  Claim(_standardize_claim_language(claim.text, confidence),
              claim.severity, sources, confidence)

\* factcheck.py:123-165; search_results is what the configured provider
\* returned for the enhanced query of this claim
_verify_single_claim(claim, search_results) ==
    LET filtered_results == _filter_search_results(search_results, claim.text)
        confidence == _calculate_confidence(filtered_results, claim)
        top == SubSeq(filtered_results, 1, Min(3, Len(filtered_results)))
        sources == [i \in 1..Len(top) |-> top[i].url]
    IN  Claim(_standardize_claim_language(claim.text, confidence),
              claim.severity, sources, confidence)

\* a variant that verifies every claim it is given, duplicates included
verify_claims_without_dedup(claims, search) ==
    [i \in 1..Len(claims) |-> _verify_single_claim(claims[i], search[claims[i].text])]

\* factcheck.py:30-59; search[text] is the provider's answer for a claim text
verify_claims(claims, search) ==
    LET unique_claims == _deduplicate_claims(claims)
    IN  [i \in 1..Len(unique_claims) |->
            _verify_single_claim(unique_claims[i], search[unique_claims[i].text])]

(***************************************************************************)
(* PlatformPost (models.py:47-128).  thread, hashtags and mentions are     *)
(* left out: no stage reads them after generate_posts.                     *)
(***************************************************************************)
\* a variant that rejects a text whose length is exactly on a limit
validate_character_limits_exclusive(platform, primary_text) ==
    IF platform = "twitter" /\ primary_text.len >= TwitterMax THEN FALSE
    ELSE IF /\ platform = "linkedin"
            /\ (primary_text.len <= LinkedInMin \/ primary_text.len >= LinkedInMax)
         THEN FALSE
    ELSE IF /\ platform = "instagram"
            /\ (primary_text.len <= InstagramMin \/ primary_text.len >= InstagramMax)
         THEN FALSE
    ELSE TRUE

\* models.py:88-128: TRUE when the validator accepts the text
validate_character_limits(platform, primary_text) ==
    IF platform = "twitter" /\ primary_text.len > TwitterMax THEN FALSE
    ELSE IF /\ platform = "linkedin"
            /\ (primary_text.len < LinkedInMin \/ primary_text.len > LinkedInMax)
         THEN FALSE
    ELSE IF /\ platform = "instagram"
            /\ (primary_text.len < InstagramMin \/ primary_text.len > InstagramMax)
         THEN FALSE
    ELSE TRUE

PlatformPost(platform, primary_text, notes, metadata) ==
    [platform |-> platform, primary_text |-> primary_text, notes |-> notes,
     metadata |-> metadata]

(***************************************************************************)
(* Dicts keyed by platform are functions whose domain is the key set.      *)
(***************************************************************************)
EmptyDict == [p \in {} |-> {}]
Keys(dict) == SelectSeq(PlatformOrder, LAMBDA p : p \in DOMAIN dict)
Put(dict, key, value) == [p \in DOMAIN dict \cup {key} |->
                              IF p = key THEN value ELSE dict[p]]

(***************************************************************************)
(* What the external collaborators can answer in this model.               *)
(***************************************************************************)
\* 200 characters fit every platform; 110 are too few for Instagram and
\* 1500 too many for Twitter and LinkedIn (models.py:115-126)
CleanPost == PostText({"workflow"}, 200)
RestrictedPost == PostText({"cures"}, 110)
LongRestrictedPost == PostText({"cures"}, 1500)

\* primary_text of a draft the Generation Service returns
GeneratedTexts == {CleanPost, RestrictedPost}
\* text the Generation Service returns for a rewrite request
RewrittenTexts == {CleanPost, LongRestrictedPost}

BufferSurvey == <<"Buffer", "survey:", "80%", "prefer", "remote">>
BufferWorkers == <<"80%", "of", "workers", "prefer", "remote,", "per", "Buffer">>
RemotePopular == <<"Remote", "work", "is", "popular">>

\* Claim(text=..., severity=...) as extract_claims builds it (graph.py:328-331)
ExtractedClaims ==
    {Claim(BufferWorkers, "high", <<>>, 0), Claim(RemotePopular, "medium", <<>>, 0)}
ClaimTexts == {c.text : c \in ExtractedClaims}

BufferReport ==
    SearchResult(<<"Buffer", "survey", "80%", "remote">>,
                 "https://buffer.com/state-of-remote-work")
ForbesRemote ==
    SearchResult(<<"Remote", "work", "survey", "statistics">>,
                 "https://www.forbes.com/remote-work")
HealthNews == SearchResult(<<"Health", "News">>, "https://www.cdc.gov/news")
Weather == SearchResult(<<"weather", "today">>, "https://example.com/weather")

\* a title that names the claim's entity, on a quality domain outside the
\* two credibility tier lists
ForresterBuffer ==
    SearchResult(<<"Buffer", "News">>, "https://www.forrester.com/buffer")

\* result lists the Search Provider returns for one query (empty on failure)
SearchOutcomes ==
    {<<>>, <<Weather, HealthNews>>, <<BufferReport, ForbesRemote>>, <<ForresterBuffer>>}

(***************************************************************************)
(* State of the model.                                                     *)
(***************************************************************************)
VARIABLES
    cfg,     \* the Config class attributes read from the environment
    pc,      \* "import", the node to run next, "END", or how the run failed
    state,   \* the workflow State dict handed from node to node
    audit,   \* history of the run: what ran and which calls were made
    faults,  \* failures of external collaborators injected so far
    probe    \* input and result of a function applied on its own

vars == <<cfg, pc, state, audit, faults, probe>>

Idle == [fn |-> "none"]

\* config.py:41-72; a credential is modelled by whether it is non-empty
Config(openai_key, provider, serpapi_key, mode) ==
    [OPENAI_API_KEY |-> openai_key, FACTCHECK_PROVIDER |-> provider,
     SERPAPI_API_KEY |-> serpapi_key, COMPLIANCE_MODE |-> mode]

\* the environments the model starts from
Configs ==
    {Config(TRUE, "duckduckgo", FALSE, "standard"),
     Config(TRUE, "duckduckgo", FALSE, "strict"),
     Config(TRUE, "serpapi", TRUE, "strict"),
     Config(TRUE, "serpapi", FALSE, "standard"),
     Config(FALSE, "duckduckgo", FALSE, "standard"),
     Config(FALSE, "serpapi", TRUE, "strict")}

\* a variant without the provider check of config.py:95-96
validateOpenAIOnly(c) == c.OPENAI_API_KEY

\* config.py:74-97: TRUE when validate() returns, FALSE when it raises
validate(c) ==
    IF ~c.OPENAI_API_KEY THEN FALSE
    ELSE IF c.FACTCHECK_PROVIDER = "serpapi" /\ ~c.SERPAPI_API_KEY THEN FALSE
    ELSE TRUE

\* api.py:126-135
initial_state ==
    [text |-> "blog", key_points |-> <<>>, drafts |-> EmptyDict,
     claims |-> EmptyDict, reviews |-> EmptyDict, timings |-> <<>>,
     errors |-> <<>>, embedding_analysis |-> "unset"]

initial_audit ==
    [executed |-> <<>>,
     review_calls |-> [p \in Platforms |-> 0],
     rewrite_requests |-> [p \in Platforms |-> 0],
     text_changes |-> [p \in Platforms |-> 0],
     first_reviews |-> EmptyDict,
     provider_failed |-> FALSE]

\* build_graph (graph.py:529-549): the entry point and the edges
StageOrder ==
    <<"extract_key_points", "generate_posts", "analyze_embeddings",
      "extract_claims", "fact_check", "compliance", "remediate_if_blocked",
      "schedule">>

NextStage(stage) ==
    LET i == CHOOSE k \in 1..Len(StageOrder) : StageOrder[k] = stage
    IN  IF i = Len(StageOrder) THEN "END" ELSE StageOrder[i + 1]

\* a variant that keeps only the newest entry
RecordErrorOverwrites(errors, message) == <<message>>

\* state["errors"].append(...)
RecordError(errors, message) == Append(errors, message)

\* an entry of state["errors"]: what failed, and for which platform
Message(what, platform) == <<what, platform>>

\* a failing answer of an external collaborator, and a text it returns
Failure(kind) == [kind |-> kind]
Answer(text) == [kind |-> "text", text |-> text]
IsFailure(response) == response.kind # "text"

\* failures among the answers given for the platforms of `keys`
FailureCount(responses) ==
    Cardinality({p \in DOMAIN responses : IsFailure(responses[p])})

\* a node ran on the work record w = [state, audit] and returned: LangGraph
\* follows the node's edge
Returned(stage, w, injected) ==
    /\ state' = w.state
    /\ audit' = [w.audit EXCEPT !.executed = Append(@, stage)]
    /\ pc' = NextStage(stage)
    /\ faults' = faults + injected
    /\ UNCHANGED <<cfg, probe>>

\* a node raised: graph.invoke raises to its caller, no later node runs
Raised(stage) ==
    /\ faults < MaxFaults
    /\ state' = state
    /\ audit' = [audit EXCEPT !.executed = Append(@, stage)]
    /\ pc' = "raised"
    /\ faults' = faults + 1
    /\ UNCHANGED <<cfg, probe>>

Work == [state |-> state, audit |-> audit]

Init ==
    /\ cfg \in Configs
    /\ pc = "import"
    /\ state = initial_state
    /\ audit = initial_audit
    /\ faults = 0
    /\ probe = Idle

\* config.py:100-104: `config.validate()` runs when app.config is imported,
\* before build_graph() and graph.invoke() can be reached
import_config ==
    /\ pc = "import"
    /\ pc' = IF validate(cfg) THEN StageOrder[1] ELSE "config_error"
    /\ UNCHANGED <<cfg, state, audit, faults, probe>>

(***************************************************************************)
(* extract_key_points (graph.py:146-228).                                  *)
(***************************************************************************)
KeyPointsResponses ==
    {Answer("key points"), Failure("exception"), Failure("unparsable"),
     Failure("no valid items")}

_extract_key_points(st, response) ==
    IF st.text = "" THEN
        [st EXCEPT !.errors = RecordError(@, Message("No text provided for key point extraction", "")),
                   !.key_points = <<>>]
    ELSE IF response.kind = "exception" THEN
        [st EXCEPT !.errors = RecordError(@, Message("Key points extraction failed", "")),
                   !.key_points = <<>>]
    ELSE IF response.kind = "unparsable" THEN
        [st EXCEPT !.errors = RecordError(@, Message("Failed to parse key points from response", "")),
                   !.key_points = <<>>]
    ELSE IF response.kind = "no valid items" THEN
        [st EXCEPT !.errors = RecordError(@, Message("No valid key points found in parsed response", "")),
                   !.key_points = <<>>]
    ELSE [st EXCEPT !.key_points = <<"key point">>]

extract_key_points ==
    /\ pc = "extract_key_points"
    /\ \E response \in KeyPointsResponses :
        /\ IsFailure(response) => faults < MaxFaults /\ state.text # ""
        /\ Returned("extract_key_points",
                    [Work EXCEPT !.state = _extract_key_points(@, response)],
                    IF IsFailure(response) THEN 1 ELSE 0)

(***************************************************************************)
(* generate_posts (graph.py:231-297).                                      *)
(***************************************************************************)
GenerationResponses ==
    {Failure("exception"), Failure("unparsable")}
        \cup {Answer(t) : t \in GeneratedTexts}

\* the body of the loop over the platforms (graph.py:260-295)
GenerateOne(st, platform, response) ==
    IF response.kind = "exception" THEN
        [st EXCEPT !.errors = RecordError(@, Message("post generation failed", platform))]
    ELSE IF response.kind = "unparsable" THEN
        [st EXCEPT !.errors = RecordError(@, Message("Failed to parse post", platform))]
    ELSE IF ~validate_character_limits(platform, response.text) THEN
        \* PlatformPost(...) raises inside the try
        [st EXCEPT !.errors = RecordError(@, Message("post generation failed", platform))]
    ELSE [st EXCEPT !.drafts =
              Put(@, platform, PlatformPost(platform, response.text, "None", "None"))]

RECURSIVE GenerateLoop(_, _, _)
GenerateLoop(st, platforms, responses) ==
    IF platforms = <<>> THEN st
    ELSE GenerateLoop(GenerateOne(st, Head(platforms), responses[Head(platforms)]),
                      Tail(platforms), responses)

_generate_posts(st, responses) ==
    GenerateLoop([st EXCEPT !.drafts = EmptyDict], PlatformOrder, responses)

generate_posts ==
    /\ pc = "generate_posts"
    /\ \E responses \in [Platforms -> GenerationResponses] :
        /\ faults + FailureCount(responses) <= MaxFaults
        /\ Returned("generate_posts",
                    [Work EXCEPT !.state = _generate_posts(@, responses)],
                    FailureCount(responses))

\* graph.py:243: ChatOpenAI(...) is constructed outside any try
generate_posts_raises ==
    /\ pc = "generate_posts"
    /\ Raised("generate_posts")

(***************************************************************************)
(* analyze_embeddings (graph.py:449-490).                                  *)
(***************************************************************************)
\* a variant whose failure also discards the drafts
_analyze_embeddings_drops_drafts(st, response) ==
    IF st.text = "" \/ DOMAIN st.drafts = {} THEN
        [st EXCEPT !.embedding_analysis = "Insufficient content for analysis"]
    ELSE IF IsFailure(response) THEN
        [st EXCEPT !.errors = RecordError(@, Message("Embedding analysis failed", "")),
                   !.embedding_analysis = "error",
                   !.drafts = EmptyDict]
    ELSE [st EXCEPT !.embedding_analysis = "results",
                    !.drafts = [p \in DOMAIN @ |-> [@[p] EXCEPT !.metadata = "quality"]]]

_analyze_embeddings(st, response) ==
    IF st.text = "" \/ DOMAIN st.drafts = {} THEN
        [st EXCEPT !.embedding_analysis = "Insufficient content for analysis"]
    ELSE IF IsFailure(response) THEN
        [st EXCEPT !.errors = RecordError(@, Message("Embedding analysis failed", "")),
                   !.embedding_analysis = "error"]
    ELSE [st EXCEPT !.embedding_analysis = "results",
                    !.drafts = [p \in DOMAIN @ |-> [@[p] EXCEPT !.metadata = "quality"]]]

analyze_embeddings ==
    /\ pc = "analyze_embeddings"
    /\ \E response \in {Answer("analysis"), Failure("exception")} :
        LET reached == state.text # "" /\ DOMAIN state.drafts # {}
        IN  /\ IsFailure(response) => faults < MaxFaults /\ reached
            /\ Returned("analyze_embeddings",
                        [Work EXCEPT !.state = _analyze_embeddings(@, response)],
                        IF IsFailure(response) THEN 1 ELSE 0)

(***************************************************************************)
(* extract_claims (graph.py:300-343).                                      *)
(***************************************************************************)
Extracted(claim_list) == [kind |-> "text", text |-> claim_list]

\* the body of the loop over the drafts (graph.py:317-341); an answer that
\* parses to no list gives [] like an empty list does
ExtractOne(st, platform, response) ==
    IF IsFailure(response) THEN
        [st EXCEPT !.errors = RecordError(@, Message("Claim extraction failed", platform)),
                   !.claims = Put(@, platform, <<>>)]
    ELSE [st EXCEPT !.claims = Put(@, platform, response.text)]

RECURSIVE ExtractLoop(_, _, _)
ExtractLoop(st, platforms, responses) ==
    IF platforms = <<>> THEN st
    ELSE ExtractLoop(ExtractOne(st, Head(platforms), responses[Head(platforms)]),
                     Tail(platforms), responses)

_extract_claims(st, responses) ==
    ExtractLoop([st EXCEPT !.claims = EmptyDict], Keys(st.drafts), responses)

RECURSIVE SumOver(_, _)
SumOver(f, keys) ==
    IF keys = {} THEN 0
    ELSE LET k == CHOOSE x \in keys : TRUE IN f[k] + SumOver(f, keys \ {k})

ExtractionResponses ==
    {Failure("exception")}
        \cup {Extracted(l) : l \in SeqsUpTo(ExtractedClaims, MaxClaims)}

extract_claims ==
    /\ pc = "extract_claims"
    /\ \E responses \in [DOMAIN state.drafts -> ExtractionResponses] :
        LET extracted == [p \in DOMAIN responses |->
                              IF IsFailure(responses[p]) THEN 0
                              ELSE Len(responses[p].text)]
        IN  /\ faults + FailureCount(responses) <= MaxFaults
            /\ SumOver(extracted, DOMAIN extracted) <= MaxClaims
            /\ Returned("extract_claims",
                        [Work EXCEPT !.state = _extract_claims(@, responses)],
                        FailureCount(responses))

\* graph.py:312: ChatOpenAI(...) is constructed outside any try
extract_claims_raises ==
    /\ pc = "extract_claims"
    /\ Raised("extract_claims")

(***************************************************************************)
(* fact_check (graph.py:346-377).                                          *)
(***************************************************************************)
\* graph.py:357-362: all claims in dict order, and where each platform starts
AllClaims(claims) == Concat([i \in 1..Len(Keys(claims)) |-> claims[Keys(claims)[i]]])

StartIndex(claims, platform) ==
    LET before == SelectSeq(Keys(claims), LAMBDA q :
                      \E i, j \in 1..Len(PlatformOrder) :
                          /\ PlatformOrder[i] = q /\ PlatformOrder[j] = platform
                          /\ i < j)
    IN  Len(AllClaims([q \in Range(before) |-> claims[q]]))

\* Python's list[start:end] with 0 <= start <= end
Slice(list, start, end) == SubSeq(list, start + 1, Min(end, Len(list)))

\* graph.py:369-372
Redistribute(claims, verified_claims) ==
    [p \in DOMAIN claims |->
        Slice(verified_claims, StartIndex(claims, p),
              StartIndex(claims, p) + Len(claims[p]))]

_fact_check(st, response) ==
    IF IsFailure(response) THEN
        \* verify_claims raised: claims are left as they were
        [st EXCEPT !.errors = RecordError(@, Message("Unified fact-checking failed", ""))]
    ELSE [st EXCEPT !.claims =
              Redistribute(@, verify_claims(AllClaims(@), response.text))]

\* the provider's answers for the claim texts of a run; a provider call
\* that fails answers [] (search.py:105-107, 145-147)
SearchWorlds(texts) == [texts -> SearchOutcomes]

fact_check ==
    /\ pc = "fact_check"
    /\ LET texts == {c.text : c \in Range(_deduplicate_claims(AllClaims(state.claims)))}
       IN  \/ \E search \in SearchWorlds(texts) :
                  Returned("fact_check",
                           [Work EXCEPT !.state = _fact_check(@, Answer(search))], 0)
           \/ /\ faults < MaxFaults
              /\ texts # {}
              \* the provider is down: every call raises inside
              \* search_duckduckgo, which prints and returns []
              \* (search.py:105-107)
              /\ Returned("fact_check",
                          [Work EXCEPT
                              !.state = _fact_check(@, Answer([t \in texts |-> <<>>])),
                              !.audit.provider_failed = TRUE], 1)
           \/ /\ faults < MaxFaults
              /\ texts # {}
              \* a result whose title is not a string makes
              \* _filter_search_results raise (factcheck.py:214)
              /\ Returned("fact_check",
                          [Work EXCEPT !.state = _fact_check(@, Failure("exception"))], 1)

(***************************************************************************)
(* compliance (graph.py:380-400).                                          *)
(***************************************************************************)
\* every call of review_post is counted in audit.review_calls
Review(w, platform) ==
    LET claims == IF platform \in DOMAIN w.state.claims
                  THEN w.state.claims[platform] ELSE <<>>
        review == review_post(cfg.COMPLIANCE_MODE, platform,
                              w.state.drafts[platform].primary_text, claims)
    IN  [w EXCEPT !.state.reviews = Put(@, platform, review),
                  !.audit.review_calls[platform] = @ + 1]

RECURSIVE ComplianceLoop(_, _)
ComplianceLoop(w, platforms) ==
    IF platforms = <<>> THEN w
    ELSE ComplianceLoop(Review(w, Head(platforms)), Tail(platforms))

_compliance(w) ==
    LET done == ComplianceLoop([w EXCEPT !.state.reviews = EmptyDict],
                               Keys(w.state.drafts))
    IN  [done EXCEPT !.audit.first_reviews = done.state.reviews]

compliance ==
    /\ pc = "compliance"
    /\ Returned("compliance", _compliance(Work), 0)

(***************************************************************************)
(* remediate_if_blocked (graph.py:403-446).                                *)
(***************************************************************************)
\* a variant that also rewrites flagged posts
NeedsRemediationAnyIssue(review) == review.status # "pass"

\* graph.py:418
NeedsRemediation(review) == review.status = "block"

\* a variant that reviews again although no rewrite was obtained
RemediateOneAlwaysReviews(w, platform, response) ==
    IF ~NeedsRemediation(w.state.reviews[platform]) THEN w
    ELSE IF IsFailure(response) THEN
        Review([w EXCEPT !.state.errors =
                             RecordError(@, Message("Remediation failed", platform)),
                         !.audit.rewrite_requests[platform] = @ + 1],
               platform)
    ELSE Review([w EXCEPT !.state.drafts[platform].primary_text = response.text,
                          !.state.drafts[platform].notes =
                              "Automatically revised for compliance",
                          !.audit.rewrite_requests[platform] = @ + 1,
                          !.audit.text_changes[platform] = @ + 1],
                platform)

\* a variant that replaces the text and keeps the review of the old text
RemediateOneKeepsReview(w, platform, response) ==
    IF ~NeedsRemediation(w.state.reviews[platform]) THEN w
    ELSE IF IsFailure(response) THEN
        [w EXCEPT !.state.errors = RecordError(@, Message("Remediation failed", platform)),
                  !.audit.rewrite_requests[platform] = @ + 1]
    ELSE [w EXCEPT !.state.drafts[platform].primary_text = response.text,
                   !.state.drafts[platform].notes =
                       "Automatically revised for compliance",
                   !.audit.rewrite_requests[platform] = @ + 1,
                   !.audit.text_changes[platform] = @ + 1]

\* graph.py:419-444: the body of the loop for one platform; `response` is
\* what llm.invoke(prompt) does
RemediateOne(w, platform, response) ==
    IF ~NeedsRemediation(w.state.reviews[platform]) THEN w
    ELSE IF IsFailure(response) THEN
        [w EXCEPT !.state.errors = RecordError(@, Message("Remediation failed", platform)),
                  !.audit.rewrite_requests[platform] = @ + 1]
    ELSE LET revised ==
                 [w EXCEPT !.state.drafts[platform].primary_text = response.text,
                           !.state.drafts[platform].notes =
                               "Automatically revised for compliance",
                           !.audit.rewrite_requests[platform] = @ + 1,
                           !.audit.text_changes[platform] = @ + 1]
         IN  Review(revised, platform)

\* a variant with one try around the whole loop: the first failure ends it
RECURSIVE RemediateLoopGuarded(_, _, _)
RemediateLoopGuarded(w, platforms, responses) ==
    IF platforms = <<>> THEN w
    ELSE LET p == Head(platforms)
             response == IF p \in DOMAIN responses THEN responses[p]
                         ELSE Failure("not asked")
             after == RemediateOne(w, p, response)
         IN  IF Len(after.state.errors) > Len(w.state.errors) THEN after
             ELSE RemediateLoopGuarded(after, Tail(platforms), responses)

RECURSIVE RemediateLoop(_, _, _)
RemediateLoop(w, platforms, responses) ==
    IF platforms = <<>> THEN w
    ELSE LET p == Head(platforms)
             response == IF p \in DOMAIN responses THEN responses[p]
                         ELSE Failure("not asked")
         IN  RemediateLoop(RemediateOne(w, p, response), Tail(platforms), responses)

_remediate_if_blocked(w, responses) ==
    RemediateLoop(w, Keys(w.state.reviews), responses)

RewriteResponses == {Failure("exception")} \cup {Answer(t) : t \in RewrittenTexts}

remediate_if_blocked ==
    /\ pc = "remediate_if_blocked"
    /\ LET blocked == {p \in DOMAIN state.reviews : NeedsRemediation(state.reviews[p])}
       IN  \E responses \in [blocked -> RewriteResponses] :
               /\ faults + FailureCount(responses) <= MaxFaults
               /\ Returned("remediate_if_blocked",
                           _remediate_if_blocked(Work, responses),
                           FailureCount(responses))

\* graph.py:415: ChatOpenAI(...) is constructed outside any try
remediate_if_blocked_raises ==
    /\ pc = "remediate_if_blocked"
    /\ Raised("remediate_if_blocked")

(***************************************************************************)
(* schedule (graph.py:493-515).                                            *)
(***************************************************************************)
\* PLATFORM_OPTIMAL_TIMES (schedule.py:34-65) with the default of
\* `.get(platform_timing_key, ["12:00"])` (schedule.py:271)
PLATFORM_OPTIMAL_TIMES(platform, key) ==
    CASE platform = "twitter" /\ key = "weekday_primary" ->
             <<"12:00", "13:00", "14:00", "15:00">>
      [] platform = "twitter" /\ key = "weekday_secondary" -> <<"09:00">>
      [] platform = "twitter" /\ key = "breaking_news" -> <<"immediate">>
      [] platform = "twitter" /\ key = "weekend" -> <<"10:00", "14:00", "16:00">>
      [] platform = "linkedin" /\ key = "tuesday_thursday" ->
             <<"07:00", "08:00", "09:00", "12:00", "13:00", "14:00", "17:00", "18:00">>
      [] platform = "linkedin" /\ key = "other_weekdays" -> <<"08:00", "13:00", "17:00">>
      [] platform = "linkedin" /\ key = "professional_morning" ->
             <<"07:00", "08:00", "09:00">>
      [] platform = "linkedin" /\ key = "weekend" -> <<>>
      [] platform = "instagram" /\ key = "weekday_evening" ->
             <<"18:00", "19:00", "20:00", "21:00">>
      [] platform = "instagram" /\ key = "weekend_morning" -> <<"10:00", "11:00">>
      [] platform = "instagram" /\ key = "weekend_evening" ->
             <<"18:00", "19:00", "20:00", "21:00">>
      [] platform = "instagram" /\ key = "visual_content" -> <<"19:00", "20:00">>
      [] OTHER -> <<"12:00">>

\* CONTENT_TYPE_PREFERENCES[content_type]["platforms"].get(platform)
\* (schedule.py:68-89); "" stands for None
CONTENT_TYPE_PREFERENCES(content_type, platform) ==
    CASE content_type = "professional" /\ platform = "linkedin" -> "professional_morning"
      [] content_type = "professional" /\ platform = "twitter" -> "weekday_secondary"
      [] content_type = "breaking_news" /\ platform = "twitter" -> "breaking_news"
      [] content_type = "visual_lifestyle" /\ platform = "instagram" -> "weekday_evening"
      [] content_type = "analytical" /\ platform = "linkedin" -> "tuesday_thursday"
      [] content_type = "analytical" /\ platform = "twitter" -> "weekday_primary"
      [] content_type = "travel" /\ platform = "instagram" -> "weekend_morning"
      [] content_type = "travel" /\ platform = "twitter" -> "weekday_primary"
      [] OTHER -> ""

\* schedule.py:205-226 on the texts of the model: the first list with a
\* term that occurs in the text decides
_detect_content_type(content_text) ==
    CASE content_text = "breaking" -> "breaking_news"
      [] content_text = "travel"   -> "travel"
      [] content_text = "study"    -> "analytical"
      [] content_text = "photos"   -> "visual_lifestyle"
      [] OTHER                     -> "professional"

\* schedule.py:314-325; now.weekday is 0 for Monday .. 6 for Sunday
_get_default_timing_key(platform, now) ==
    IF platform = "linkedin" THEN
        IF 1 <= now.weekday /\ now.weekday <= 3
        THEN "tuesday_thursday" ELSE "other_weekdays"
    ELSE IF platform = "instagram" THEN
        IF now.weekday >= 5 THEN "weekend_morning" ELSE "weekday_evening"
    ELSE IF now.weekday < 5 THEN "weekday_primary" ELSE "weekend"

\* int(hour) of `map(int, time_slot.split(":"))`; -1 when int() raises
SlotHour(time_slot) ==
    CASE time_slot = "07:00" -> 7   [] time_slot = "08:00" -> 8
      [] time_slot = "09:00" -> 9   [] time_slot = "10:00" -> 10
      [] time_slot = "11:00" -> 11  [] time_slot = "12:00" -> 12
      [] time_slot = "13:00" -> 13  [] time_slot = "14:00" -> 14
      [] time_slot = "15:00" -> 15  [] time_slot = "16:00" -> 16
      [] time_slot = "17:00" -> 17  [] time_slot = "18:00" -> 18
      [] time_slot = "19:00" -> 19  [] time_slot = "20:00" -> 20
      [] time_slot = "21:00" -> 21
      [] OTHER -> -1

\* `"weekend" in timing_context`
NamesWeekend(key) == key \in {"weekend", "weekend_morning", "weekend_evening"}

\* schedule.py:328-342.  Times are whole hours counted from midnight of the
\* current day; now is [weekday, hour] and stands for half past that hour,
\* so a slot of the current day has passed iff its hour is at most now.hour.
_calculate_optimal_slot_time(time_slot, now, timing_context) ==
    LET suggested_time == SlotHour(time_slot)
    IN  IF NamesWeekend(timing_context) /\ now.weekday < 5
        THEN suggested_time + 24 * (5 - now.weekday)
        ELSE IF suggested_time <= now.hour THEN suggested_time + 24
        ELSE suggested_time

\* models.py PostingTime without its rationale; local_datetime_iso holds the
\* hour count, which orders as the isoformat strings of one timezone do
PostingTime(platform, local_datetime_iso) ==
    [platform |-> platform, local_datetime_iso |-> local_datetime_iso]

\* the loop of schedule.py:290-309 over optimal_times[:2]; acc carries the
\* suggestions, the shared used_slots and whether int() has raised
RECURSIVE SlotLoop(_, _, _, _, _)
SlotLoop(platform, key, times, now, acc) ==
    IF times = <<>> \/ acc.raised THEN acc
    ELSE IF SlotHour(Head(times)) < 0 THEN [acc EXCEPT !.raised = TRUE]
    ELSE LET slot_time == _calculate_optimal_slot_time(Head(times), now, key)
             stagger_hours == IF platform = "twitter" THEN 1 ELSE 2
             suggested_time == IF slot_time \in acc.used_slots
                               THEN slot_time + stagger_hours ELSE slot_time
         IN  SlotLoop(platform, key, Tail(times), now,
                      [acc EXCEPT
                          !.suggestions = Append(@, PostingTime(platform, suggested_time)),
                          !.used_slots = @ \cup {suggested_time}])

\* schedule.py:252-309
_get_context_aware_suggestions(platform, content_type, now, acc) ==
    LET preferred == CONTENT_TYPE_PREFERENCES(content_type, platform)
        platform_timing_key == IF preferred = ""
                               THEN _get_default_timing_key(platform, now)
                               ELSE preferred
        optimal_times == PLATFORM_OPTIMAL_TIMES(platform, platform_timing_key)
    IN  IF platform_timing_key = "immediate"
        THEN [acc EXCEPT !.suggestions = Append(@, PostingTime(platform, now.hour))]
        ELSE SlotLoop(platform, platform_timing_key,
                      SubSeq(optimal_times, 1, IF Len(optimal_times) < 2
                                               THEN Len(optimal_times) ELSE 2),
                      now, acc)

RECURSIVE PlatformLoop(_, _, _, _)
PlatformLoop(platforms, content_type, now, acc) ==
    IF platforms = <<>> \/ acc.raised THEN acc
    ELSE PlatformLoop(Tail(platforms), content_type, now,
                      _get_context_aware_suggestions(Head(platforms), content_type,
                                                     now, acc))

\* list.sort(key=lambda x: x.local_datetime_iso): stable
RECURSIVE SortByTime(_)
SortByTime(suggestions) ==
    IF suggestions = <<>> THEN <<>>
    ELSE LET sorted == SortByTime(SubSeq(suggestions, 1, Len(suggestions) - 1))
             last == suggestions[Len(suggestions)]
             k == Cardinality({i \in 1..Len(sorted) :
                                  sorted[i].local_datetime_iso <= last.local_datetime_iso})
         IN  SubSeq(sorted, 1, k) \o <<last>> \o SubSeq(sorted, k + 1, Len(sorted))

BreakingNewsPosts == 3
RegularPosts == 6

\* schedule.py:123-159; the result is [raised, timings], raised when the
\* call ends in an exception
suggest_times(platforms, content_text, now) ==
    LET content_type == _detect_content_type(content_text)
        all == PlatformLoop(platforms, content_type, now,
                            [raised |-> FALSE, suggestions |-> <<>>, used_slots |-> {}])
        sorted == SortByTime(all.suggestions)
        max_posts == IF content_type = "breaking_news"
                     THEN BreakingNewsPosts ELSE RegularPosts
    IN  IF all.raised THEN [raised |-> TRUE, timings |-> <<>>]
        ELSE [raised |-> FALSE,
              timings |-> SubSeq(sorted, 1, IF Len(sorted) < max_posts
                                            THEN Len(sorted) ELSE max_posts)]

\* the moments a pipeline run is scheduled at: a Tuesday morning and a
\* Saturday afternoon
RunClocks == {[weekday |-> 1, hour |-> 6], [weekday |-> 5, hour |-> 13]}

_schedule(st, response) ==
    IF IsFailure(response) THEN
        [st EXCEPT !.errors = RecordError(@, Message("Context-aware scheduling failed", "")),
                   !.timings = <<>>]
    ELSE LET suggested == suggest_times(Keys(st.drafts), st.text, response.text)
         IN  IF suggested.raised
             THEN [st EXCEPT
                      !.errors = RecordError(@, Message("Context-aware scheduling failed", "")),
                      !.timings = <<>>]
             ELSE [st EXCEPT !.timings = suggested.timings]

schedule ==
    /\ pc = "schedule"
    /\ \E response \in {Answer(now) : now \in RunClocks} \cup {Failure("exception")} :
        /\ IsFailure(response) => faults < MaxFaults
        /\ Returned("schedule", [Work EXCEPT !.state = _schedule(@, response)],
                    IF IsFailure(response) THEN 1 ELSE 0)

(***************************************************************************)
(* The pipeline: import of the configuration, then graph.invoke.           *)
(***************************************************************************)
Next ==
    \/ import_config
    \/ extract_key_points
    \/ generate_posts
    \/ generate_posts_raises
    \/ analyze_embeddings
    \/ extract_claims
    \/ extract_claims_raises
    \/ fact_check
    \/ compliance
    \/ remediate_if_blocked
    \/ remediate_if_blocked_raises
    \/ schedule

Spec == Init /\ [][Next]_vars

(***************************************************************************)
(* Properties of the pipeline.                                             *)
(***************************************************************************)
Terminated == pc \in {"END", "raised"}

\* the entry `what` for `platform` is in state["errors"]
Recorded(what, platform) == Message(what, platform) \in Range(state.errors)

Revised(platform) ==
    /\ platform \in DOMAIN state.drafts
    /\ state.drafts[platform].notes = "Automatically revised for compliance"

\* C1: in every pipeline run the eight stages execute exactly once each, in
\* the order extract_key_points, generate_posts, analyze_embeddings,
\* extract_claims, fact_check, compliance, remediate_if_blocked, schedule.
C1_StagesOnceInOrder == Terminated => audit.executed = StageOrder

\* C2: no failure inside a stage propagates to the caller of graph.invoke,
\* so the run never ends by raising.
C2_NoFailurePropagates == pc # "raised"

\* C3: when a stage fails, the field that stage owns holds its empty default
\* afterwards: no key points, no draft of the failed platform, no claims of
\* the platform whose extraction failed, no claims at all when verification
\* failed, no timings.
C3_FailedStageLeavesEmptyDefault ==
    /\ (\/ Recorded("Key points extraction failed", "")
        \/ Recorded("Failed to parse key points from response", "")
        \/ Recorded("No valid key points found in parsed response", ""))
           => state.key_points = <<>>
    /\ \A p \in Platforms :
           (Recorded("post generation failed", p) \/ Recorded("Failed to parse post", p))
               => p \notin DOMAIN state.drafts
    /\ \A p \in DOMAIN state.claims :
           Recorded("Claim extraction failed", p) => state.claims[p] = <<>>
    /\ Recorded("Unified fact-checking failed", "")
           => \A p \in DOMAIN state.claims : state.claims[p] = <<>>
    /\ Recorded("Context-aware scheduling failed", "") => state.timings = <<>>

\* C4: errors is append-only: after every step the previous list is a prefix
\* of the new one.
C4_ErrorsAppendOnly == [][IsPrefix(state.errors, state'.errors)]_vars

\* two entries: the second was appended to a list that already held one
C4_Witness == Len(state.errors) >= 2

\* C5: with OPENAI_API_KEY missing, or with the serpapi provider and no
\* SERPAPI_API_KEY, validation fails before any stage: no stage executes and
\* the workflow state is never filled.
C5_InvalidConfigRunsNothing ==
    (\/ ~cfg.OPENAI_API_KEY
     \/ cfg.FACTCHECK_PROVIDER = "serpapi" /\ ~cfg.SERPAPI_API_KEY)
        => /\ pc \in {"import", "config_error"}
           /\ audit.executed = <<>>
           /\ state = initial_state

C5_Witness ==
    /\ pc = "config_error"
    /\ cfg.OPENAI_API_KEY
    /\ cfg.FACTCHECK_PROVIDER = "serpapi"
    /\ ~cfg.SERPAPI_API_KEY

\* C6 as stated: at the end of a run review_post was invoked exactly twice for
\* each platform whose first Review has status block and exactly once for the
\* platforms whose first Review is pass or flag, also when the Generation
\* Service fails.
C6_TwiceForEveryBlocked ==
    pc = "END" =>
        \A p \in DOMAIN audit.first_reviews :
            audit.review_calls[p] =
                IF audit.first_reviews[p].status = "block" THEN 2 ELSE 1

\* C6: at the end of a run review_post was invoked exactly twice for each
\* platform whose first Review has status block and whose rewrite request
\* returned a text, exactly once for every other reviewed platform, and never
\* for a platform without a draft.
C6_TwiceForEveryRewritten ==
    Terminated =>
        \A p \in Platforms :
            audit.review_calls[p] =
                IF p \notin DOMAIN audit.first_reviews THEN 0
                ELSE IF audit.first_reviews[p].status = "block" /\ Revised(p)
                     THEN 2
                ELSE 1

\* one blocked platform was rewritten, another saw its rewrite request fail
C6_Witness ==
    /\ pc = "END"
    /\ \E p, q \in DOMAIN audit.first_reviews :
           /\ audit.first_reviews[p].status = "block"
           /\ audit.review_calls[p] = 2
           /\ audit.first_reviews[q].status = "block"
           /\ Recorded("Remediation failed", q)
           /\ audit.review_calls[q] = 1
    /\ \E r \in DOMAIN audit.first_reviews : audit.first_reviews[r].status = "flag"

\* C7: when the remediation of a blocked platform fails, the failure is in
\* errors, that platform's Review is still the one compliance produced, and
\* every other blocked platform is still remediated.
C7_RemediationFailureIsolated ==
    pc \in {"schedule", "END"} =>
        \A p \in DOMAIN audit.first_reviews :
            (audit.rewrite_requests[p] = 1 /\ audit.text_changes[p] = 0)
                => /\ Recorded("Remediation failed", p)
                   /\ state.reviews[p] = audit.first_reviews[p]
                   /\ \A q \in DOMAIN audit.first_reviews :
                          audit.first_reviews[q].status = "block"
                              => audit.rewrite_requests[q] = 1

\* the first blocked platform failed, the one after it was still rewritten
C7_Witness ==
    /\ pc = "END"
    /\ Recorded("Remediation failed", "twitter")
    /\ "linkedin" \in DOMAIN audit.first_reviews
    /\ audit.first_reviews["linkedin"].status = "block"
    /\ Revised("linkedin")
    /\ audit.review_calls["linkedin"] = 2

TextChanged(p) ==
    /\ p \in DOMAIN state.drafts
    /\ p \in DOMAIN state'.drafts
    /\ state'.drafts[p].primary_text # state.drafts[p].primary_text

\* C8: a draft's primary_text changes at most once, only in
\* remediate_if_blocked and only for a platform whose Review is block at that
\* moment; at most one rewrite is requested per platform; and the stage hands
\* over to schedule whatever the re-review says.
C8_OneRewriteOnlyForBlocked ==
    [][\A p \in Platforms :
           /\ (TextChanged(p) \/ audit'.text_changes[p] > audit.text_changes[p]
                   \/ audit'.rewrite_requests[p] > audit.rewrite_requests[p])
                  => /\ pc = "remediate_if_blocked"
                     /\ p \in DOMAIN state.reviews
                     /\ state.reviews[p].status = "block"
           /\ audit'.text_changes[p] <= 1
           /\ audit'.rewrite_requests[p] <= 1
           /\ pc = "remediate_if_blocked" => pc' \in {"schedule", "raised"}]_vars

\* a rewritten post that is still blocked, in a run that reached its end
C8_Witness ==
    /\ pc = "END"
    /\ \E p \in DOMAIN state.reviews :
           /\ audit.text_changes[p] = 1
           /\ state.reviews[p].status = "block"
           /\ audit.review_calls[p] = 2

(***************************************************************************)
(* review_post on its own (compliance.py:71-101): a configuration, a post  *)
(* text and a list of verified claims are chosen, then the function is     *)
(* applied once.                                                           *)
(***************************************************************************)
ReviewWords == {"damn", "Guaranteed", "cures", "workflow"}
\* tests/test_compliance.py:12 and :65, by the listed words they contain
ProblematicText == PostText({"guarantee", "100%", "cure"}, 58)
MedicalText == PostText({"treatment", "cure", "diagnose"}, 63)

ReviewTexts ==
    {PostText(W, 200) : W \in SUBSET ReviewWords} \cup {ProblematicText, MedicalText}

SourcesNone == <<>>
SourcesOne == <<"https://buffer.com/state-of-remote-work">>
SourcesTwo ==
    <<"https://buffer.com/state-of-remote-work", "https://www.forbes.com/remote-work">>

\* tests/test_compliance.py:15-21
ClinicalTrialsClaim ==
    Claim(<<"100%", "success", "rate", "in", "clinical", "trials">>, "high",
          SourcesNone, 30)

ReviewClaims ==
    {ClinicalTrialsClaim,
     Claim(BufferWorkers, "high", SourcesNone, 10),
     Claim(BufferWorkers, "high", SourcesNone, 40),
     Claim(RemotePopular, "medium", SourcesTwo, 95)}

InitReview ==
    /\ cfg \in {c \in Configs : validate(c)}
    /\ pc = "probe"
    /\ state = initial_state
    /\ audit = initial_audit
    /\ faults = 0
    /\ \E text \in ReviewTexts, claims \in SeqsUpTo(ReviewClaims, MaxProbeClaims) :
           probe = [fn |-> "review_post", text |-> text, claims |-> claims,
                    done |-> FALSE, review |-> PostReview("none", <<>>, <<>>)]

call_review_post ==
    /\ probe.fn = "review_post"
    /\ ~probe.done
    /\ probe' = [probe EXCEPT
                     !.done = TRUE,
                     !.review = review_post(cfg.COMPLIANCE_MODE, "twitter",
                                            probe.text, probe.claims)]
    /\ UNCHANGED <<cfg, pc, state, audit, faults>>

NextReview == call_review_post

SpecReview == InitReview /\ [][NextReview]_vars

(***************************************************************************)
(* _check_claim_confidence on its own (compliance.py:142-194).             *)
(***************************************************************************)
\* confidences on both sides of every threshold of the check, in hundredths
ConfidenceGrid == {24, 25, 29, 30, 49, 50, 59, 60}

ConfidenceClaims ==
    {Claim(RemotePopular, severity, sources, confidence) :
        severity \in {"low", "medium", "high"},
        sources \in {SourcesNone, SourcesOne, SourcesTwo},
        confidence \in ConfidenceGrid}

InitConfidence ==
    /\ cfg = Config(TRUE, "duckduckgo", FALSE, "standard")
    /\ pc = "probe"
    /\ state = initial_state
    /\ audit = initial_audit
    /\ faults = 0
    /\ \E claims \in SeqsUpTo(ConfidenceClaims, MaxProbeClaims) :
           probe = [fn |-> "_check_claim_confidence", claims |-> claims,
                    done |-> FALSE, issues |-> <<>>]

call_check_claim_confidence ==
    /\ probe.fn = "_check_claim_confidence"
    /\ ~probe.done
    /\ probe' = [probe EXCEPT !.done = TRUE,
                              !.issues = _check_claim_confidence(probe.claims)]
    /\ UNCHANGED <<cfg, pc, state, audit, faults>>

NextConfidence == call_check_claim_confidence

SpecConfidence == InitConfidence /\ [][NextConfidence]_vars

(***************************************************************************)
(* Properties of the Compliance Engine.                                    *)
(***************************************************************************)
HasSeverity(issues, severity) ==
    \E i \in 1..Len(issues) : issues[i].severity = severity

\* C9: the status of a Review returned by review_post is determined by its
\* issues alone: block iff some issue is critical, flag iff none is critical
\* and some is major, pass otherwise.
C9_StatusFromIssues ==
    (probe.fn = "review_post" /\ probe.done) =>
        LET review == probe.review
        IN  /\ review.status \in {"pass", "flag", "block"}
            /\ review.status = "block" <=> HasSeverity(review.issues, "critical")
            /\ review.status = "flag" <=>
                   /\ ~HasSeverity(review.issues, "critical")
                   /\ HasSeverity(review.issues, "major")
            /\ review.status = "pass" <=>
                   /\ ~HasSeverity(review.issues, "critical")
                   /\ ~HasSeverity(review.issues, "major")

\* issues were found, all of them minor, and the post passes
C9_Witness ==
    /\ probe.fn = "review_post"
    /\ probe.done
    /\ probe.review.issues # <<>>
    /\ \A i \in 1..Len(probe.review.issues) : probe.review.issues[i].severity = "minor"
    /\ probe.review.status = "pass"

\* what is expected for one claim: "none", or the severity and the rule of
\* its single issue ("any" where the rule is left open)
Expect(severity, rule_id) == [severity |-> severity, rule_id |-> rule_id]
NoIssue == Expect("none", "none")

\* the issues are exactly the expected ones, one per claim that is due one,
\* in the order of the claims
EmitsExactly(claims, issues, Expected(_)) ==
    LET due == SelectSeq(claims, LAMBDA c : Expected(c) # NoIssue)
    IN  /\ Len(issues) = Len(due)
        /\ \A k \in 1..Len(due) :
               /\ issues[k].about = due[k].text
               /\ issues[k].severity = Expected(due[k]).severity
               /\ Expected(due[k]).rule_id \in {"any", issues[k].rule_id}

StatedConfidenceIssue(claim) ==
    IF claim.severity = "high" THEN
        IF claim.confidence < 30 THEN Expect("major", "low_confidence_claim")
        ELSE IF claim.confidence < 50 /\ Len(claim.sources) = 0
            THEN Expect("minor", "unsourced_claim")
        ELSE IF /\ claim.confidence >= 50
                /\ claim.confidence < 60
                /\ Len(claim.sources) >= 2
            THEN Expect("minor", "attribution_note")
        ELSE NoIssue
    ELSE IF claim.severity = "medium" /\ claim.confidence < 25
        THEN Expect("minor", "any")
    ELSE NoIssue

AmendedConfidenceIssue(claim) ==
    IF claim.severity = "high" THEN
        IF claim.confidence < 30 THEN Expect("major", "low_confidence_claim")
        ELSE IF claim.confidence < 50 /\ Len(claim.sources) = 0
            THEN Expect("minor", "unsourced_claim")
        ELSE IF claim.confidence < 60 /\ Len(claim.sources) >= 2
            THEN Expect("minor", "attribution_note")
        ELSE NoIssue
    ELSE IF claim.severity = "medium" /\ claim.confidence < 25
        THEN Expect("minor", "any")
    ELSE NoIssue

\* C10 as stated: the confidence check emits at most one issue per claim:
\* high and confidence < 0.3 a major low_confidence_claim; high, confidence in
\* [0.3,0.5) and no sources a minor unsourced_claim; high, confidence in
\* [0.5,0.6) and at least 2 sources a minor attribution_note; medium and
\* confidence < 0.25 a minor issue; nothing in every other case.
C10_AttributionFromHalf ==
    (probe.fn = "_check_claim_confidence" /\ probe.done) =>
        EmitsExactly(probe.claims, probe.issues, StatedConfidenceIssue)

\* C10: the same table with the attribution_note given to high-severity
\* claims with confidence in [0.3,0.6) and at least 2 sources.
C10_AttributionFromThreeTenths ==
    (probe.fn = "_check_claim_confidence" /\ probe.done) =>
        EmitsExactly(probe.claims, probe.issues, AmendedConfidenceIssue)

\* a high-severity claim with confidence 0.49 and two sources gets the note,
\* next to a low-severity claim that gets nothing
C10_Witness ==
    /\ probe.fn = "_check_claim_confidence"
    /\ probe.done
    /\ probe.claims = <<Claim(RemotePopular, "low", SourcesNone, 24),
                        Claim(RemotePopular, "high", SourcesTwo, 49)>>
    /\ Len(probe.issues) = 1
    /\ probe.issues[1].rule_id = "attribution_note"

HasRule(issues, rule_id) ==
    \E i \in 1..Len(issues) : issues[i].rule_id = rule_id

IssueAbout(issues, rule_id, severity, text) ==
    \E i \in 1..Len(issues) :
        /\ issues[i].rule_id = rule_id
        /\ issues[i].severity = severity
        /\ issues[i].about = text

RestrictedTermsIn(text) == {w \in Range(STRICT_RESTRICTED) : Contains(text, w)}

\* C12: a Review is block exactly when the mode is strict and the text
\* contains a restricted term; each such term yields one critical
\* strict_mode_restricted issue, and in standard mode no Review is block.
C12_BlockOnlyStrictRestricted ==
    (probe.fn = "review_post" /\ probe.done) =>
        LET issues == probe.review.issues
            strict_hits == {i \in 1..Len(issues) :
                               issues[i].rule_id = "strict_mode_restricted"}
        IN  /\ probe.review.status = "block" <=>
                   /\ cfg.COMPLIANCE_MODE = "strict"
                   /\ RestrictedTermsIn(probe.text) # {}
            /\ \A i \in strict_hits : issues[i].severity = "critical"
            /\ {issues[i].about : i \in strict_hits} =
                   IF cfg.COMPLIANCE_MODE = "strict"
                   THEN RestrictedTermsIn(probe.text) ELSE {}
            /\ Cardinality(strict_hits) =
                   IF cfg.COMPLIANCE_MODE = "strict"
                   THEN Cardinality(RestrictedTermsIn(probe.text)) ELSE 0

\* the medical text of the strict-mode test is blocked in strict mode
C12_Witness ==
    /\ probe.fn = "review_post"
    /\ probe.done
    /\ cfg.COMPLIANCE_MODE = "strict"
    /\ probe.text = MedicalText
    /\ probe.claims = <<>>
    /\ probe.review.status = "block"
    /\ Len(probe.review.issues) = 3

(***************************************************************************)
(* verify_claims on its own (factcheck.py:30-59): a claim list and the     *)
(* Search Provider's answer for each claim text are chosen, then the       *)
(* function is applied once.                                               *)
(***************************************************************************)
VerifyOutcomes == SearchOutcomes \cup {<<Weather>>}

\* claims as extraction builds them, and one that already carries a
\* confidence (tests/test_claims.py:30-33)
VerifyClaims ==
    {Claim(BufferSurvey, "high", <<>>, 0),
     Claim(BufferWorkers, "high", <<>>, 0),
     Claim(RemotePopular, "medium", <<>>, 0),
     Claim(RemotePopular, "low", <<>>, 50)}

InitVerify ==
    /\ cfg = Config(TRUE, "duckduckgo", FALSE, "standard")
    /\ pc = "probe"
    /\ state = initial_state
    /\ audit = initial_audit
    /\ faults = 0
    /\ \E claims \in SeqsUpTo(VerifyClaims, MaxProbeClaims) :
           \E search \in [{c.text : c \in Range(claims)} -> VerifyOutcomes] :
               probe = [fn |-> "verify_claims", claims |-> claims,
                        search |-> search, done |-> FALSE, verified |-> <<>>]

call_verify_claims ==
    /\ probe.fn = "verify_claims"
    /\ ~probe.done
    /\ probe' = [probe EXCEPT !.done = TRUE,
                              !.verified = verify_claims(probe.claims, probe.search)]
    /\ UNCHANGED <<cfg, pc, state, audit, faults>>

NextVerify == call_verify_claims

SpecVerify == InitVerify /\ [][NextVerify]_vars

(***************************************************************************)
(* Properties of the Claim Verification Engine.                            *)
(***************************************************************************)
Verified == probe.fn = "verify_claims" /\ probe.done

\* C13: every claim returned by verify_claims has a confidence between 0.1
\* and 0.95, whatever the Search Provider returned for it.
C13_ConfidenceInRange ==
    Verified =>
        \A i \in 1..Len(probe.verified) :
            /\ probe.verified[i].confidence >= 10
            /\ probe.verified[i].confidence <= 95

\* one call returns a claim at the floor and a claim at the cap
C13_Witness ==
    /\ Verified
    /\ \E i, j \in 1..Len(probe.verified) :
           /\ probe.verified[i].confidence = 10
           /\ probe.verified[j].confidence = 95

\* the claims verify_claims verifies, in order: verified[i] is made of Unique[i]
Unique == _deduplicate_claims(probe.claims)

\* no result for the claim is left after both filters of factcheck.py
NoRelevant(claim) ==
    _filter_relevant_results(
        _filter_search_results(probe.search[claim.text], claim.text),
        LowerText(claim.text)) = <<>>

C15_RawResultsGiveTwoTenths ==
    Verified =>
        \A i \in 1..Len(probe.verified) :
            NoRelevant(Unique[i]) =>
                probe.verified[i].confidence =
                    IF probe.search[Unique[i].text] # <<>> THEN 20 ELSE 10

(***************************************************************************)
(* _deduplicate_claims on its own (factcheck.py:62-90): a claim list is    *)
(* chosen, the function is applied to it, and then again to its own        *)
(* output.                                                                 *)
(***************************************************************************)
BufferPercent == <<"Buffer", "survey:", "80", "percent", "prefer", "remote">>
BufferStudy == <<"Buffer", "study", "80%", "45%">>
GartnerStudy == <<"Gartner", "study", "45%">>
WorkersPrefer == <<"workers", "prefer", "remote">>

DedupClaims ==
    {Claim(BufferSurvey, "high", <<>>, 0),
     Claim(BufferWorkers, "high", <<>>, 0),
     Claim(BufferPercent, "medium", <<>>, 0),
     Claim(BufferStudy, "medium", <<>>, 0),
     Claim(GartnerStudy, "low", <<>>, 0),
     Claim(RemotePopular, "medium", <<>>, 0),
     Claim(WorkersPrefer, "low", <<>>, 0)}

InitDedup ==
    /\ cfg = Config(TRUE, "duckduckgo", FALSE, "standard")
    /\ pc = "probe"
    /\ state = initial_state
    /\ audit = initial_audit
    /\ faults = 0
    /\ \E claims \in SeqsUpTo(DedupClaims, MaxDedupClaims) :
           probe = [fn |-> "_deduplicate_claims", claims |-> claims, out |-> <<>>]

\* out[1] is the result for the chosen list, out[2] the result for out[1]
call_deduplicate_claims ==
    /\ probe.fn = "_deduplicate_claims"
    /\ Len(probe.out) < 2
    /\ LET arg == IF probe.out = <<>> THEN probe.claims
                  ELSE probe.out[Len(probe.out)]
       IN  probe' = [probe EXCEPT !.out = Append(@, _deduplicate_claims(arg))]
    /\ UNCHANGED <<cfg, pc, state, audit, faults>>

NextDedup == call_deduplicate_claims

SpecDedup == InitDedup /\ [][NextDedup]_vars

(***************************************************************************)
(* Properties of claim deduplication.                                      *)
(***************************************************************************)
\* C16: claim deduplication is idempotent: deduplicating the output of
\* _deduplicate_claims gives that output again, same claims in the same order.
C16_DedupIdempotent ==
    (probe.fn = "_deduplicate_claims" /\ Len(probe.out) = 2)
        => probe.out[2] = probe.out[1]

\* a list with two duplicates of its first claim has been deduplicated twice
C16_Witness ==
    /\ probe.fn = "_deduplicate_claims"
    /\ Len(probe.out) = 2
    /\ Len(probe.claims) = 3
    /\ Len(probe.out[1]) = 1

RECURSIVE IsSubsequence(_, _)
IsSubsequence(a, b) ==
    IF a = <<>> THEN TRUE
    ELSE IF b = <<>> THEN FALSE
    ELSE IF Head(a) = Head(b) THEN IsSubsequence(Tail(a), Tail(b))
    ELSE IsSubsequence(a, Tail(b))

SharesNumberAndEntity(text1, text2) ==
    /\ \E n \in {"80%", "80", "45%", "2023"} :
           /\ \E i \in 1..Len(text1) : n \in Range(NumbersIn(text1[i]))
           /\ \E i \in 1..Len(text2) : n \in Range(NumbersIn(text2[i]))
    /\ \E e \in {"buffer", "gartner", "who"} :
           /\ \E i \in 1..Len(text1) : e \in Range(EntitiesIn(Lower(text1[i])))
           /\ \E i \in 1..Len(text2) : e \in Range(EntitiesIn(Lower(text2[i])))

StateFields ==
    {"text", "key_points", "drafts", "claims", "reviews", "timings", "errors",
     "embedding_analysis"}

\* C20: if every Search Provider call fails, the pipeline still completes
\* with every state field present, every verified claim has confidence 0.1
\* and no sources, and the errors list is non-empty because the provider
\* failure is recorded.
C20_ProviderFailureRecorded ==
    audit.provider_failed =>
        /\ pc # "raised"
        /\ pc = "END" =>
               /\ DOMAIN state = StateFields
               /\ \A p \in DOMAIN state.claims :
                      \A i \in 1..Len(state.claims[p]) :
                          /\ state.claims[p][i].confidence = 10
                          /\ state.claims[p][i].sources = <<>>
               /\ state.errors # <<>>

(***************************************************************************)
(* Properties of the semantic analysis stage.                              *)
(***************************************************************************)
Position(stage) ==
    IF \E i \in 1..Len(audit.executed) : audit.executed[i] = stage
    THEN CHOOSE i \in 1..Len(audit.executed) : audit.executed[i] = stage
    ELSE 0

TextLengths ==
    {0, 1, 99, 100, 101, 124, 125, 126, 279, 280, 281, 400, 499, 500, 800,
     1199, 1200, 1201, 1299, 1300, 1301, 2199, 2200, 2201}

InitPost ==
    /\ cfg = Config(TRUE, "duckduckgo", FALSE, "standard")
    /\ pc = "probe"
    /\ state = initial_state
    /\ audit = initial_audit
    /\ faults = 0
    /\ \E platform \in Platforms, n \in TextLengths :
           probe = [fn |-> "PlatformPost", platform |-> platform,
                    primary_text |-> PostText({"workflow"}, n),
                    done |-> FALSE, accepted |-> FALSE]

construct_PlatformPost ==
    /\ probe.fn = "PlatformPost"
    /\ ~probe.done
    /\ probe' = [probe EXCEPT
                    !.done = TRUE,
                    !.accepted = validate_character_limits(probe.platform,
                                                           probe.primary_text)]
    /\ UNCHANGED <<cfg, pc, state, audit, faults>>

NextPost == construct_PlatformPost

SpecPost == InitPost /\ [][NextPost]_vars

Constructed(platform) ==
    probe.fn = "PlatformPost" /\ probe.done /\ probe.platform = platform

PlatformLists ==
    {l \in SeqsUpTo(Platforms, Cardinality(Platforms)) :
        \A i, j \in 1..Len(l) : i # j => l[i] # l[j]}

\* one text per content type; "" is the default of the content_text argument
ContentTexts == {"", "breaking", "travel", "study", "photos"}

\* every weekday, early in the morning, after lunch and late in the evening
Clocks == {[weekday |-> d, hour |-> h] : d \in 0..6, h \in {6, 13, 22}}

InitTimes ==
    /\ cfg = Config(TRUE, "duckduckgo", FALSE, "standard")
    /\ pc = "probe"
    /\ state = initial_state
    /\ audit = initial_audit
    /\ faults = 0
    /\ \E platforms \in PlatformLists, content_text \in ContentTexts, now \in Clocks :
           probe = [fn |-> "suggest_times", platforms |-> platforms,
                    content_text |-> content_text, now |-> now, done |-> FALSE,
                    raised |-> FALSE, timings |-> <<>>]

call_suggest_times ==
    /\ probe.fn = "suggest_times"
    /\ ~probe.done
    /\ LET suggested == suggest_times(probe.platforms, probe.content_text, probe.now)
       IN  probe' = [probe EXCEPT !.done = TRUE,
                                  !.raised = suggested.raised,
                                  !.timings = suggested.timings]
    /\ UNCHANGED <<cfg, pc, state, audit, faults>>

NextTimes == call_suggest_times

SpecTimes == InitTimes /\ [][NextTimes]_vars

\* C23: suggest_times called with twitter, linkedin and instagram returns at
\* least 6 suggestions and at least one for each of the three platforms, for
\* every content type and weekday; called with an empty platform list it
\* returns an empty list.
C23_SixSuggestionsForThreePlatforms ==
    (probe.fn = "suggest_times" /\ probe.done) =>
        /\ probe.platforms = PlatformOrder =>
               /\ ~probe.raised
               /\ Len(probe.timings) >= 6
               /\ \A p \in Platforms :
                      \E i \in 1..Len(probe.timings) : probe.timings[i].platform = p
        /\ probe.platforms = <<>> => (~probe.raised /\ probe.timings = <<>>)

(***************************************************************************)
(* Properties of the text standardization of verified claims.              *)
(***************************************************************************)
\* the text has a hedge word, or starts with "According to"
CarriesHedge(text) ==
    \/ \E i \in 1..Len(text) : IsHedge(Lower(text[i]))
    \/ /\ Len(text) >= 2
       /\ Lower(text[1]) = "according"
       /\ Lower(text[2]) = "to"

\* C24: every verified claim with confidence below 0.4 has a text that
\* carries hedging language ('reportedly', an 'According to' prefix or a
\* hedge word it already had); one with confidence of 0.7 or more has no
\* leading 'reportedly'; one with confidence in [0.4, 0.7) keeps its
\* extracted text.
C24_LowConfidenceIsHedged ==
    Verified =>
        \A i \in 1..Len(probe.verified) :
            LET claim == probe.verified[i]
            IN  /\ claim.confidence < 40 => CarriesHedge(claim.text)
                /\ claim.confidence >= 70 =>
                       (claim.text = <<>> \/ Lower(claim.text[1]) # "reportedly")
                /\ (claim.confidence >= 40 /\ claim.confidence < 70)
                       => claim.text = Unique[i].text

(***************************************************************************)
(* search_duckduckgo (search.py:53-107).  A query is the original text or  *)
(* a variation built from it: a quoted phrase followed by words.           *)
(***************************************************************************)
Query(phrase, words) == [phrase |-> phrase, words |-> words]

\* search.py:72: `len(word) > 3 and word.lower() not in [...]` per token
IsSearchKeyword(word) ==
    word \in {"Buffer", "survey", "workers", "Remote", "work", "popular", "prefer"}

\* list(dict.fromkeys(search_queries)): first occurrences, in order
RECURSIVE FirstOccurrences(_)
FirstOccurrences(list) ==
    IF list = <<>> THEN <<>>
    ELSE LET front == FirstOccurrences(SubSeq(list, 1, Len(list) - 1))
             last == list[Len(list)]
         IN  IF last \in Range(front) THEN front ELSE Append(front, last)

\* search.py:70-84
search_queries(query) ==
    LET numbers == FindAll(NumbersIn, query)
        keywords == SelectSeq(query, IsSearchKeyword)
        first_keywords == SubSeq(keywords, 1, IF Len(keywords) < 3
                                              THEN Len(keywords) ELSE 3)
    IN  FirstOccurrences(
            <<Query(<<>>, query), Query(<<>>, keywords \o numbers)>>
                \o (IF numbers # <<>> /\ keywords # <<>>
                    THEN <<Query(numbers, first_keywords)>> ELSE <<>>))

VariationLimit == 2
DefaultMaxResults == 5

\* search.py:86-102: answers[i] is what ddgs.text gives for the i-th query
\* issued, a list of raw results or a failure
RECURSIVE CollectResults(_, _)
CollectResults(raw, results) ==
    IF raw = <<>> THEN results
    ELSE LET result == Head(raw)
         IN  CollectResults(Tail(raw),
                 IF result.url # "" /\ result \notin Range(results)
                 THEN Append(results, result) ELSE results)

RECURSIVE QueryLoop(_, _, _, _)
QueryLoop(queries, answers, k, results) ==
    IF k > Len(queries) THEN results
    ELSE QueryLoop(queries, answers, k + 1,
                   IF IsFailure(answers[k]) THEN results
                   ELSE CollectResults(answers[k].text, results))

\* search.py:53-107; client_ok is FALSE when DDGS() itself raises.  The
\* result is [queries, results]: the queries issued and the list returned.
search_duckduckgo(query, client_ok, answers, max_results) ==
    IF ~client_ok THEN [queries |-> <<>>, results |-> <<>>]
    ELSE LET all == search_queries(query)
             queries == SubSeq(all, 1, IF Len(all) < VariationLimit
                                       THEN Len(all) ELSE VariationLimit)
             results == QueryLoop(queries, answers, 1, <<>>)
         IN  [queries |-> queries,
              results |-> SubSeq(results, 1, IF Len(results) < max_results * 2
                                             THEN Len(results) ELSE max_results * 2)]

(***************************************************************************)
(* search_duckduckgo on its own: a query and the provider's answers to the *)
(* variations are chosen, then the function is applied once.               *)
(***************************************************************************)
\* raw results of one ddgs.text call
MaxRawResults == 2

SearchQueries ==
    {<<"Buffer", "survey", "80">>, <<"80%", "of", "workers">>,
     <<"Remote", "work", "is", "popular">>}

\* two titles for one page, another page, and a result without href
RawResults ==
    {SearchResult(<<"Buffer", "survey">>, "https://buffer.com/state-of-remote-work"),
     SearchResult(<<"Remote", "work">>, "https://buffer.com/state-of-remote-work"),
     SearchResult(<<"Remote", "work">>, "https://www.forbes.com/remote-work"),
     SearchResult(<<"Remote", "work">>, "")}

ProviderAnswers ==
    {Answer(raw) : raw \in SeqsUpTo(RawResults, MaxRawResults)}
        \cup {Failure("exception")}

InitSearch ==
    /\ cfg = Config(TRUE, "duckduckgo", FALSE, "standard")
    /\ pc = "probe"
    /\ state = initial_state
    /\ audit = initial_audit
    /\ faults = 0
    /\ \E query \in SearchQueries, client_ok \in BOOLEAN,
          answers \in [1..VariationLimit -> ProviderAnswers] :
           probe = [fn |-> "search_duckduckgo", query |-> query,
                    client_ok |-> client_ok, answers |-> answers,
                    done |-> FALSE, queries |-> <<>>, results |-> <<>>]

call_search_duckduckgo ==
    /\ probe.fn = "search_duckduckgo"
    /\ ~probe.done
    /\ LET found == search_duckduckgo(probe.query, probe.client_ok, probe.answers,
                                      DefaultMaxResults)
       IN  probe' = [probe EXCEPT !.done = TRUE,
                                  !.queries = found.queries,
                                  !.results = found.results]
    /\ UNCHANGED <<cfg, pc, state, audit, faults>>

NextSearch == call_search_duckduckgo

SpecSearch == InitSearch /\ [][NextSearch]_vars

\* C25: for each claim the Search Provider is queried with at most two query
\* variants, and the result list handed to the relevance filter never
\* contains two entries with the same url.
C25_TwoVariantsNoRepeatedUrl ==
    (probe.fn = "search_duckduckgo" /\ probe.done) =>
        /\ Len(probe.queries) <= 2
        /\ \A i, j \in 1..Len(probe.results) :
               i # j => probe.results[i].url # probe.results[j].url

(***************************************************************************)
(* Properties of the claims handed from fact_check to compliance.          *)
(***************************************************************************)
\* v is what verification makes of the extracted claim c, or c itself when
\* verification raised
VerifiedFormOf(v, c) ==
    \/ v = c
    \/ /\ v.severity = c.severity
       /\ v.text = _standardize_claim_language(c.text, v.confidence)

\* C26: after fact_check, for every platform P the list claims[P] is as long
\* as before the stage and each entry is the verified form of the claim that
\* was extracted for P at that place; no claim extracted for one platform
\* ends up in the list of another.
C26_ClaimsStayWithTheirPlatform ==
    [][pc = "fact_check" =>
           /\ DOMAIN state'.claims = DOMAIN state.claims
           /\ \A P \in DOMAIN state.claims :
                  /\ Len(state'.claims[P]) = Len(state.claims[P])
                  /\ \A i \in 1..Len(state'.claims[P]) :
                         i <= Len(state.claims[P])
                             => VerifiedFormOf(state'.claims[P][i], state.claims[P][i])]_vars

\* the text has no number and no known entity
IsPlain(claim) ==
    /\ FindAll(NumbersIn, claim.text) = <<>>
    /\ FindAll(EntitiesIn, LowerText(claim.text)) = <<>>

\* C27: deduplication removes a claim only when it shares a number token or
\* an entity token with an earlier retained claim: claims whose text has no
\* number and no known entity are never dropped, so a list of such claims
\* is returned unchanged.
C27_PlainClaimsAreKept ==
    (probe.fn = "_deduplicate_claims" /\ Len(probe.out) >= 1) =>
        /\ SelectSeq(probe.out[1], IsPlain) = SelectSeq(probe.claims, IsPlain)
        /\ (\A i \in 1..Len(probe.claims) : IsPlain(probe.claims[i]))
               => probe.out[1] = probe.claims

(***************************************************************************)
(* Properties of the confidences that reach the Compliance Engine.         *)
(***************************************************************************)
\* every Review made so far in the run
ReviewsMade ==
    {state.reviews[p] : p \in DOMAIN state.reviews}
        \cup {audit.first_reviews[p] : p \in DOMAIN audit.first_reviews}

\* C28: in every pipeline run no Review has an unsourced_claim or an
\* attribution_note issue: a claim that reaches the Compliance Engine has
\* confidence 0.0, 0.1, 0.2 or at least 0.6, so the only confidence issue
\* that arises is low_confidence_claim.
C28_OnlyLowConfidenceIssues ==
    \A review \in ReviewsMade :
        /\ \A i \in 1..Len(review.issues) :
               review.issues[i].rule_id \notin {"unsourced_claim", "attribution_note"}
        /\ \A i \in 1..Len(review.claims) :
               \/ review.claims[i].confidence \in {0, 10, 20}
               \/ review.claims[i].confidence >= 60

\* a high-severity claim reviewed with a confidence between 0.6 and 0.7 and
\* a single source, next to a claim reported as low_confidence_claim
C28_Witness ==
    /\ pc = "END"
    /\ \E review \in ReviewsMade :
           \E i \in 1..Len(review.claims) :
               /\ review.claims[i].severity = "high"
               /\ review.claims[i].confidence >= 60
               /\ review.claims[i].confidence < 70
               /\ Len(review.claims[i].sources) = 1
    /\ \E review \in ReviewsMade : HasRule(review.issues, "low_confidence_claim")

(***************************************************************************)
(* Properties of the state a finished run returns.                         *)
(***************************************************************************)
\* what the Compliance Engine answers for the draft and the claim list the
\* state holds for a platform (graph.py:394-395, 439-440)
ReviewOfFinalText(platform) ==
    review_post(cfg.COMPLIANCE_MODE, platform, state.drafts[platform].primary_text,
                IF platform \in DOMAIN state.claims THEN state.claims[platform]
                ELSE <<>>)

\* C29: at the end of every pipeline run reviews has entries only for
\* platforms that have a draft, and each Review is the Compliance Engine's
\* result for the post's final primary_text and the platform's final claim
\* list; no Review is stale, a failed remediation included.
C29_ReviewsMatchFinalText ==
    pc = "END" =>
        /\ DOMAIN state.reviews \subseteq DOMAIN state.drafts
        /\ \A p \in DOMAIN state.reviews : state.reviews[p] = ReviewOfFinalText(p)

\* a finished run in which one blocked post was rewritten and reviewed
\* again, and the rewrite of another blocked post failed
C29_Witness ==
    /\ pc = "END"
    /\ \E p, q \in DOMAIN state.reviews :
           /\ audit.text_changes[p] = 1
           /\ state.reviews[p] # audit.first_reviews[p]
           /\ audit.rewrite_requests[q] = 1
           /\ audit.text_changes[q] = 0
           /\ state.reviews[q].status = "block"

\* C30: at the end of every pipeline run every post in drafts satisfies the
\* character limits its platform's validator enforces (Twitter at most 280,
\* LinkedIn 100..1300, Instagram 125..2200): a generated draft that violates
\* them is not stored, and a post rewritten by remediation satisfies them.
C30_FinalDraftsWithinLimits ==
    pc = "END" =>
        \A p \in DOMAIN state.drafts :
            validate_character_limits(p, state.drafts[p].primary_text)

====
